---------------------------- MODULE Spec2Model ----------------------------
(***************************************************************************)
(* Model of the BLE-to-WiFi bridge: the StrQueue ring buffer of            *)
(* null-terminated strings (StrQueue.h, StrQueue.cpp), the ValueToRead     *)
(* schedule entries (ValueToRead.h, ValueToRead.cpp) and the control loop  *)
(* of the sketch (minute tick, due reads, BLE rescan, WiFi reconnect,      *)
(* forwarding to the IoT hub).                                             *)
(*                                                                         *)
(* A C string is modelled as the sequence of its bytes before the          *)
(* terminating NUL; bytes are small naturals, NUL is 0.                    *)
(***************************************************************************)
EXTENDS Integers, Sequences, FiniteSets, Bags, TLC

(***************************************************************************)
(* Bounds of the model.                                                    *)
(***************************************************************************)
\* largest queue size (constructor argument nsize) explored for a StrQueue
MaxCap == 5
\* longest record pushed by the queue harness
MaxLen == 2
\* number of successful pushes followed in the FIFO history
MaxPushes == 3

NUL == 0
\* content of a buffer cell that new char[] allocated and nothing wrote yet
Unwritten == -1

\* The non-null byte values of the model.  StrQueue compares a byte with NUL
\* and with nothing else, so two distinct values stand for all of them.
Chars == {1, 2}

RECURSIVE SeqsUpTo(_, _)
SeqsUpTo(S, n) ==
  IF n = 0 THEN {<<>>}
  ELSE LET shorter == SeqsUpTo(S, n - 1)
       IN shorter \cup {Append(s, c) : s \in {t \in shorter : Len(t) = n - 1}, c \in S}

Take(s, n) == SubSeq(s, 1, IF n < Len(s) THEN n ELSE Len(s))
Drop(s, n) == SubSeq(s, n + 1, Len(s))

VARIABLES
  measuredData,   \* the StrQueue: [buf, wrptr, rdptr, maxsize]
  lastOp,         \* harness: the last StrQueue call, its arguments and results
  prevOp,         \* harness: the call before it, when it opens a two-call case
  pushed,         \* harness: records pushed with success, in order
  popped,         \* harness: strings returned by successful pops, in order
  wrWraps,        \* harness: times the write cursor wrapped to 0 (capped)
  rdWraps,        \* harness: times the read cursor wrapped to 0 (capped)
  config,         \* the VALUEn= lines of the configuration file that setup() parsed
  vals2read,      \* the table of ValueToRead entries (nValues is its length)
  buf,            \* char buf[384]: its bytes up to the last one that is not NUL
  minuteCounter,  \* unsigned long minuteCounter
  lastMin,        \* int lastMin
  timeForScan,    \* int timeForScan
  pc,             \* where loop() is: "tick", "read", "scan", "scanning", "wifi", "forward"
  idx,            \* the index i of the for loop over vals2read (1-based)
  build,          \* which sprintf the sketch was built with (see Sprintf)
  ticked,         \* history: the current loop iteration ran the one-minute tasks
  attempts,       \* history: entries readValue was called for in the current tick
  lastAdv,        \* history: the latest advertisement of the running scan, and the table before it
  lastWifi,       \* history: the WiFi block of this loop iteration gave lastMin another value
  overflowed,     \* history: "Measurement queue overflow" was printed
  audit,          \* history: the records the read loop queued, the records delivered,
                  \*   the advertised addresses that matched each entry
  nTicks,         \* history: number of one-minute ticks taken
  nScans,         \* history: number of BLE scans started
  nFails,         \* history: number of deliveries that failed
  lastRead,       \* history: what the last pass of the read loop did
  lastFwd,        \* history: what the forwarding block of the last iteration did
  fwdOpen,        \* history: the read loop pushed and fewer than MaxFwdLog forwards followed
  fwdStart,       \* history: what the queue held when the forwards after that push began
  fwdLog          \* history: those forward attempts, each with its record and outcome

qvars == <<measuredData>>
hvars == <<lastOp, prevOp>>
fvars == <<pushed, popped, wrWraps, rdWraps>>
loopvars == <<config, vals2read, minuteCounter, lastMin, timeForScan, pc, idx, build>>
histvars == <<ticked, attempts, lastAdv, overflowed, nTicks, nScans, nFails, lastRead, lastFwd, fwdOpen, fwdStart, fwdLog>>
sysvars == <<loopvars, histvars, lastWifi, audit, buf>>
vars == <<measuredData, lastOp, prevOp, pushed, popped, wrWraps, rdWraps,
          config, vals2read, minuteCounter, lastMin, timeForScan, pc, idx, build,
          ticked, attempts, lastAdv, overflowed, nTicks, nScans, nFails, lastRead, lastFwd, fwdOpen, fwdStart, fwdLog, lastWifi, audit, buf>>

(***************************************************************************)
(* StrQueue                                                                *)
(***************************************************************************)
\* StrQueue(int nsize): nsize+1 chars are allocated, cursors start at 0
NewStrQueue(nsize) ==
  [buf |-> [i \in 0..nsize |-> Unwritten], wrptr |-> 0, rdptr |-> 0, maxsize |-> nsize]

isEmpty(q) == q.wrptr = q.rdptr

used(q) ==
  IF q.wrptr >= q.rdptr THEN q.wrptr - q.rdptr ELSE q.maxsize + q.wrptr - q.rdptr

available(q) == q.maxsize - used(q) - 1

makeEmpty(q) == [q EXCEPT !.rdptr = 0, !.wrptr = 0]

\* one pass of push's for loop: the byte c is stored at the write cursor and
\* the cursor advanced
PushByte(q, c) ==
  LET w1 == q.wrptr + 1
  IN [q EXCEPT !.buf[q.wrptr] = c,
               !.wrptr = IF w1 >= q.maxsize THEN 0 ELSE w1]

\* the passes of push's for loop for the bytes cs[lo..hi], in order: those of
\* the first half of the range give the queue h, those of the second half
\* start from h
RECURSIVE PushRange(_, _, _, _)
PushRange(q, cs, lo, hi) ==
  IF lo > hi THEN q
  ELSE IF lo = hi THEN PushByte(q, cs[lo])
  ELSE LET mid == (lo + hi) \div 2
       IN CHOOSE r \in {PushRange(h, cs, mid + 1, hi) :
                          h \in {PushRange(q, cs, lo, mid)}} : TRUE

\* PushLoop with the wrap test written wrptr > maxsize
RECURSIVE PushLoop_WrapLate(_, _, _)
PushLoop_WrapLate(q, cs, i) ==
  IF i > Len(cs) THEN q
  ELSE LET w1 == q.wrptr + 1
           q1 == [q EXCEPT !.buf[q.wrptr] = cs[i],
                           !.wrptr = IF w1 > q.maxsize THEN 0 ELSE w1]
       IN PushLoop_WrapLate(q1, cs, i + 1)

\* the body of push's for loop, from index i (1-based) of the bytes cs
PushLoop(q, cs, i) == PushRange(q, cs, i, Len(cs))

\* push with the room test off by one (the reserved byte forgotten)
push_OffByOne(q, s) ==
  LET n == Len(s) + 1
  IN IF n > available(q) + 1 THEN [sts |-> 0, q |-> q]
     ELSE [sts |-> 1, q |-> PushLoop(q, Append(s, NUL), 1)]

\* push that empties a queue too full for s before refusing
push_FlushesWhenFull(q, s) ==
  LET n == Len(s) + 1
  IN IF n > available(q) THEN [sts |-> 0, q |-> makeEmpty(q)]
     ELSE [sts |-> 1, q |-> PushLoop(q, Append(s, NUL), 1)]

\* push(s): [sts, q]; s is the string without its terminator
push(q, s) ==
  LET n == Len(s) + 1
  IN IF n > available(q) THEN [sts |-> 0, q |-> q]
     ELSE [sts |-> 1, q |-> PushLoop(q, Append(s, NUL), 1)]

\* pass i of pop's for loop on st = [q, s, done]: nothing once the loop was
\* left; else the byte at the read cursor is taken and the cursor advanced,
\* and the loop is left at a NUL, at rdptr = wrptr, or at i = maxlen - 2
PopByte(st, i, maxlen) ==
  IF st.done THEN st
  ELSE LET c  == st.q.buf[st.q.rdptr]
           r1 == st.q.rdptr + 1
           q1 == [st.q EXCEPT !.rdptr = IF r1 >= st.q.maxsize THEN 0 ELSE r1]
       IN IF c = NUL THEN [q |-> q1, s |-> st.s, done |-> TRUE]
          ELSE [q |-> q1, s |-> Append(st.s, c),
                done |-> (q1.rdptr = q1.wrptr \/ i = maxlen - 2)]

\* passes lo..hi of pop's for loop, in order
RECURSIVE PopRange(_, _, _, _)
PopRange(st, lo, hi, maxlen) ==
  IF lo > hi \/ st.done THEN st
  ELSE IF lo = hi THEN PopByte(st, lo, maxlen)
  ELSE LET mid  == (lo + hi) \div 2
           half == PopRange(st, lo, mid, maxlen)
       IN PopRange(half, mid + 1, hi, maxlen)

\* PopLoop that stops at the terminator without consuming it
RECURSIVE PopLoop_KeepsTerminator(_, _, _, _)
PopLoop_KeepsTerminator(q, out, i, maxlen) ==
  IF ~(i < maxlen - 1) THEN [q |-> q, s |-> out]
  ELSE LET c  == q.buf[q.rdptr]
           r1 == q.rdptr + 1
           q1 == [q EXCEPT !.rdptr = IF r1 >= q.maxsize THEN 0 ELSE r1]
       IN IF c = NUL THEN [q |-> q, s |-> out]
          ELSE IF q1.rdptr = q1.wrptr THEN [q |-> q1, s |-> Append(out, c)]
          ELSE IF i = maxlen - 2 THEN [q |-> q1, s |-> Append(out, c)]
          ELSE PopLoop_KeepsTerminator(q1, Append(out, c), i + 1, maxlen)

\* PopLoop that copies maxlen bytes instead of maxlen-1
RECURSIVE PopLoop_CopiesMaxlen(_, _, _, _)
PopLoop_CopiesMaxlen(q, out, i, maxlen) ==
  IF ~(i < maxlen) THEN [q |-> q, s |-> out]
  ELSE LET c  == q.buf[q.rdptr]
           r1 == q.rdptr + 1
           q1 == [q EXCEPT !.rdptr = IF r1 >= q.maxsize THEN 0 ELSE r1]
       IN IF c = NUL THEN [q |-> q1, s |-> out]
          ELSE IF q1.rdptr = q1.wrptr THEN [q |-> q1, s |-> Append(out, c)]
          ELSE IF i = maxlen - 1 THEN [q |-> q1, s |-> Append(out, c)]
          ELSE PopLoop_CopiesMaxlen(q1, Append(out, c), i + 1, maxlen)

\* PopLoop without the wrap of the read cursor at maxsize
RECURSIVE PopLoop_WrapLate(_, _, _, _)
PopLoop_WrapLate(q, out, i, maxlen) ==
  IF ~(i < maxlen - 1) THEN [q |-> q, s |-> out]
  ELSE LET c  == q.buf[q.rdptr]
           r1 == q.rdptr + 1
           q1 == [q EXCEPT !.rdptr = IF r1 > q.maxsize THEN 0 ELSE r1]
       IN IF c = NUL THEN [q |-> q1, s |-> out]
          ELSE IF q1.rdptr = q1.wrptr THEN [q |-> q1, s |-> Append(out, c)]
          ELSE IF i = maxlen - 2 THEN [q |-> q1, s |-> Append(out, c)]
          ELSE PopLoop_WrapLate(q1, Append(out, c), i + 1, maxlen)

\* the body of pop's for loop at index i (0-based), out = s[0..i-1]
PopLoop(q, out, i, maxlen) ==
  LET r == PopRange([q |-> q, s |-> out, done |-> FALSE], i, maxlen - 2, maxlen)
  IN [q |-> r.q, s |-> r.s]

\* pop that copies the record out and leaves it in the queue
pop_LeavesRecord(q, maxlen) ==
  IF maxlen < 1 THEN [sts |-> 0, s |-> <<>>, q |-> q]
  ELSE IF isEmpty(q) THEN [sts |-> 0, s |-> <<>>, q |-> q]
  ELSE LET r == PopLoop(q, <<>>, 0, maxlen)
       IN [sts |-> 1, s |-> r.s, q |-> q]

\* pop(s, maxlen): [sts, s, q]; s is the string left in the destination
pop(q, maxlen) ==
  IF maxlen < 1 THEN [sts |-> 0, s |-> <<>>, q |-> q]
  ELSE IF isEmpty(q) THEN [sts |-> 0, s |-> <<>>, q |-> q]
  ELSE LET r == PopLoop(q, <<>>, 0, maxlen)
       IN [sts |-> 1, s |-> r.s, q |-> r.q]

(***************************************************************************)
(* What the buffer holds, read off its bytes: the bytes from the read      *)
(* cursor to the write cursor, cut into strings at each NUL.               *)
(***************************************************************************)
QueueBytes(q) ==
  [k \in 1..used(q) |-> q.buf[(q.rdptr + k - 1) % q.maxsize]]

\* st = [cur, acc] after the byte b: a NUL ends the string cur
SplitByte(st, b) ==
  IF b = NUL THEN [cur |-> <<>>, acc |-> Append(st.acc, st.cur)]
  ELSE [cur |-> Append(st.cur, b), acc |-> st.acc]

RECURSIVE SplitRange(_, _, _, _)
SplitRange(bytes, st, lo, hi) ==
  IF lo > hi THEN st
  ELSE IF lo = hi THEN SplitByte(st, bytes[lo])
  ELSE LET mid == (lo + hi) \div 2
       IN CHOOSE r \in {SplitRange(bytes, h, mid + 1, hi) :
                          h \in {SplitRange(bytes, st, lo, mid)}} : TRUE

SplitAtNul(bytes, cur, acc) ==
  LET r == SplitRange(bytes, [cur |-> cur, acc |-> acc], 1, Len(bytes))
  IN IF r.cur = <<>> THEN r.acc ELSE Append(r.acc, r.cur)

Stored(q) == SplitAtNul(QueueBytes(q), <<>>, <<>>)

(***************************************************************************)
(* ValueToRead entries and the strings of the sketch.  Strings are kept    *)
(* short: a time stamp, a tag, a value read, a device name and a device    *)
(* address are one byte each, and so is the placeholder readValue leaves   *)
(* in the buffer when the connect fails ("*UNKNOWN*", kept as its "*").    *)
(***************************************************************************)
Comma == 44
Unknown == <<42>>
BLESVR_ERR_CONNECTFAIL == 2
\* sizeof buf1, the destination of the forwarder's pop
Buf1Size == 384
\* maxlen handed to readValue
ReadBufLen == 256
\* number of bytes onResult copies into deviceAddr
AddrCopyLen == 18
\* minuteCounter is a 32-bit unsigned long; setup() stores -1 in it, that is
\* ULONG_MAX, written here as the bit pattern -1, and ++ takes it to 0
ULongMax == -1
ULongInc(c) == IF c = ULongMax THEN 0 ELSE c + 1
\* a BLE rescan is asked for when minuteCounter % 60 is 59
ScanPeriod == 60

\* strncpy(dst, src, n) into a buffer read back as a string
Strncpy(src, n) == Take(src, n)

\* ValueToRead::ValueToRead()
NewValueToRead ==
  [valueTag |-> <<>>, deviceId |-> <<>>, serviceUuid |-> <<>>,
   characteristicUuid |-> <<>>, deviceAddr |-> <<>>,
   minutesBetweenReads |-> 60, connects |-> 0, errors |-> 0]

\* the service and the characteristic the configured lines name
Svc == <<83>>
Chr == <<67>>

\* an entry as setup() leaves it for a well-formed VALUEn= line
Configured(tag, minutes, device) ==
  [NewValueToRead EXCEPT !.valueTag = tag, !.minutesBetweenReads = minutes,
                         !.deviceId = device, !.serviceUuid = Svc,
                         !.characteristicUuid = Chr]

\* bit is set in the mask word
HasBit(word, bit) == (word \div bit) % 2 = 1
ErrorBits == {1, 2}

\* errors |= bit, for a single-bit mask
BitOr(word, bit) == IF (word \div bit) % 2 = 1 THEN word ELSE word + bit

\* onResult's loop body matching on the device name only
Resolve_NameOnly(p, devName, devAddr) ==
  IF p.deviceId = devName
  THEN [p EXCEPT !.deviceAddr = Strncpy(devAddr, AddrCopyLen)]
  ELSE p

\* Resolve whose copy is cut short after the first byte of the address, the
\* rest of deviceAddr keeping what it held
Resolve_PartialCopy(p, devName, devAddr) ==
  IF p.deviceId = devName \/ p.deviceId = devAddr
  THEN [p EXCEPT !.deviceAddr =
          IF p.deviceAddr = <<>> THEN Strncpy(devAddr, AddrCopyLen)
          ELSE Take(devAddr, 1) \o Drop(p.deviceAddr, 1)]
  ELSE p

\* the body of onResult's loop for one entry
Resolve(p, devName, devAddr) ==
  IF p.deviceId = devName \/ p.deviceId = devAddr
  THEN [p EXCEPT !.deviceAddr = Strncpy(devAddr, AddrCopyLen)]
  ELSE p

\* MyAdvertisedDeviceCallbacks::onResult
onResult(table, devName, devAddr) ==
  [i \in 1..Len(table) |-> Resolve(table[i], devName, devAddr)]

\* IsDue with the interval counted from 1 instead of 0
IsDue_OffByOne(counter, p) ==
  /\ (counter + 1) % p.minutesBetweenReads = 0
  /\ p.deviceAddr # <<>>

\* the test of the read loop: the right minute, and the device was seen
IsDue(counter, p) ==
  /\ counter % p.minutesBetweenReads = 0
  /\ p.deviceAddr # <<>>

\* readValue counting a connect that failed
readValue_CountsFailedConnect(v2rd, connected, val, maxlen) ==
  [v |-> [v2rd EXCEPT !.connects = v2rd.connects + 1,
                      !.errors = IF connected THEN v2rd.errors
                                 ELSE BitOr(v2rd.errors, BLESVR_ERR_CONNECTFAIL)],
   buf |-> IF connected THEN Strncpy(val, maxlen - 1)
           ELSE Strncpy(Unknown, maxlen - 1)]

\* readValue clearing the error word after a connect that worked
readValue_ClearsErrors(v2rd, connected, val, maxlen) ==
  IF connected
  THEN [v |-> [v2rd EXCEPT !.connects = v2rd.connects + 1, !.errors = 0],
        buf |-> Strncpy(val, maxlen - 1)]
  ELSE [v |-> [v2rd EXCEPT !.errors = BitOr(v2rd.errors, BLESVR_ERR_CONNECTFAIL)],
        buf |-> Strncpy(Unknown, maxlen - 1)]

\* sizeof buf, the buffer readValue and sprintf write
BufSize == 384

\* a byte array without the NULs at its end
Trim(b) ==
  LET set == {k \in 1..Len(b) : b[k] # NUL}
  IN IF set = {} THEN <<>>
     ELSE Take(b, CHOOSE k \in set : \A j \in set : j <= k)

\* strncpy(b, src, n): the first n bytes of b become src, cut at n bytes or
\* filled up to n bytes with NUL; a source of n bytes or more gets no NUL
StrncpyInto(b, src, n) ==
  LET m == IF Len(src) < n THEN Len(src) ELSE n
      last == IF Len(b) > m THEN Len(b) ELSE m
  IN Trim([i \in 1..last |->
             IF i <= m THEN src[i] ELSE IF i <= n THEN NUL ELSE b[i]])

\* the string at the start of b: its bytes before the first NUL
CStr(b) ==
  LET nuls == {k \in 1..Len(b) : b[k] = NUL}
  IN IF nuls = {} THEN b
     ELSE Take(b, (CHOOSE k \in nuls : \A j \in nuls : k <= j) - 1)

\* b after sprintf wrote rec and its NUL from the start of b
SprintfInto(b, rec) == Trim(rec \o <<NUL>> \o Drop(b, Len(rec) + 1))

\* sprintf of a record that does not fit buf writes past the end of buf: the
\* bytes land in what follows buf and the record is pushed from there, or
\* the sketch stops on a fault
SprintfOutcomes(rec) ==
  IF Len(rec) + 1 > BufSize THEN {"spill", "fault"} ELSE {"fits"}

\* readValue forgetting the address of a device it could not connect to
readValue_ForgetsOnFailure(v2rd, connected, val, maxlen) ==
  IF connected
  THEN [v |-> [v2rd EXCEPT !.connects = v2rd.connects + 1],
        buf |-> Strncpy(val, maxlen - 1)]
  ELSE [v |-> [v2rd EXCEPT !.errors = BitOr(v2rd.errors, BLESVR_ERR_CONNECTFAIL),
                           !.deviceAddr = <<>>],
        buf |-> Strncpy(Unknown, maxlen - 1)]

\* readValue: the entry afterwards and the string left in buf
readValue(v2rd, connected, val, maxlen) ==
  IF connected
  THEN [v |-> [v2rd EXCEPT !.connects = v2rd.connects + 1],
        buf |-> Strncpy(val, maxlen - 1)]
  ELSE [v |-> [v2rd EXCEPT !.errors = BitOr(v2rd.errors, BLESVR_ERR_CONNECTFAIL)],
        buf |-> Strncpy(Unknown, maxlen - 1)]

\* sprintf(buf, "%s,%s,%s", ttag, valueTag, buf): the destination is also the
\* third argument, which the C library does not define.  A build gives one of:
\*  "argFirst": the argument is taken before anything is written;
\*  "inPlace":  the output is written as it is formatted, so the third %s
\*              reads what the first two fields left at the start of buf;
\*  "lazy":     the length of the third argument is taken first and its bytes
\*              are copied after the first two fields were written over them.
SprintfBuilds == {"argFirst", "inPlace", "lazy"}

Sprintf(ttag, tag, old, how) ==
  LET prefix == ttag \o <<Comma>> \o tag \o <<Comma>>
      after  == prefix \o Drop(old, Len(prefix))
  IN CASE how = "argFirst" -> prefix \o old
       [] how = "inPlace"  -> prefix \o after
       [] how = "lazy"     -> prefix \o Take(after, Len(old))

NoRead == [i |-> 0, called |-> FALSE, connected |-> FALSE, addr |-> <<>>,
           rec |-> <<>>, sts |-> 0]
NoFwd == [tried |-> FALSE, ok |-> FALSE, requeued |-> 0]
NoWifi == [moved |-> FALSE]
NoAudit == [queued |-> EmptyBag, delivered |-> EmptyBag, matched |-> {}]
NoAdv == [seen |-> FALSE, name |-> <<>>, addr |-> <<>>, before |-> <<>>]

\* the control loop's variables while only the StrQueue is exercised
SysIdle ==
  /\ config = <<>>
  /\ vals2read = <<>>
  /\ minuteCounter = ULongMax
  /\ lastMin = 0
  /\ timeForScan = TRUE
  /\ pc = "tick"
  /\ idx = 1
  /\ build = "argFirst"
  /\ ticked = FALSE
  /\ attempts = {}
  /\ lastAdv = NoAdv
  /\ overflowed = FALSE
  /\ lastWifi = NoWifi
  /\ audit = NoAudit
  /\ buf = <<>>
  /\ nTicks = 0
  /\ nScans = 0
  /\ nFails = 0
  /\ lastRead = NoRead
  /\ lastFwd = NoFwd
  /\ fwdOpen = FALSE
  /\ fwdStart = <<>>
  /\ fwdLog = <<>>


(***************************************************************************)
(* The StrQueue on its own: any sequence of push, pop and makeEmpty calls  *)
(* on a queue of any size up to MaxCap.  lastOp and prevOp record the two  *)
(* latest calls: arguments, results, and what the buffer held before.      *)
(***************************************************************************)
Records == SeqsUpTo(Chars, MaxLen)
\* destination capacities handed to pop: from none to one that holds the
\* longest record and its terminator with a byte to spare
DestSizes == 0..(MaxLen + 2)

NoOp ==
  [op |-> "none", s |-> <<>>, maxlen |-> 0, sts |-> 0, out |-> <<>>, before |-> <<>>]

\* The two-call properties are about a push on an empty queue followed by a pop,
\* and about a pop that cut a record short followed by a pop: the call before
\* the last one is remembered when it is one of these, and as NoOp otherwise.
Kept(o) ==
  IF \/ o.op = "push" /\ o.before = <<>>
     \/ /\ o.op = "pop" /\ o.sts = 1 /\ Len(o.before) >= 2
        /\ Len(o.before[1]) > o.maxlen - 1
  THEN o ELSE NoOp

QInit ==
  /\ measuredData \in {NewStrQueue(n) : n \in 1..MaxCap}
  /\ lastOp = NoOp
  /\ prevOp = NoOp
  /\ pushed = <<>>
  /\ popped = <<>>
  /\ wrWraps = 0
  /\ rdWraps = 0
  /\ SysIdle

QPush ==
  \E s \in Records :
    LET r == push(measuredData, s)
    IN /\ measuredData' = r.q
       /\ lastOp' = [op |-> "push", s |-> s, maxlen |-> 0, sts |-> r.sts,
                     out |-> <<>>, before |-> Stored(measuredData)]
       /\ prevOp' = Kept(lastOp)
       /\ UNCHANGED <<fvars, sysvars>>

QPop ==
  \E maxlen \in DestSizes :
    LET r == pop(measuredData, maxlen)
    IN /\ measuredData' = r.q
       /\ lastOp' = [op |-> "pop", s |-> <<>>, maxlen |-> maxlen, sts |-> r.sts,
                     out |-> r.s, before |-> Stored(measuredData)]
       /\ prevOp' = Kept(lastOp)
       /\ UNCHANGED <<fvars, sysvars>>

QMakeEmpty ==
  /\ measuredData' = makeEmpty(measuredData)
  /\ lastOp' = [op |-> "makeEmpty", s |-> <<>>, maxlen |-> 0, sts |-> 0,
                out |-> <<>>, before |-> Stored(measuredData)]
  /\ prevOp' = Kept(lastOp)
  /\ UNCHANGED <<fvars, sysvars>>

QNext == QPush \/ QPop \/ QMakeEmpty

SpecQ == QInit /\ [][QNext]_vars

(***************************************************************************)
(* Properties of the StrQueue on its own (SpecQ).                          *)
(***************************************************************************)

\* C1: after any sequence of push, pop and makeEmpty calls on a queue of
\* capacity N, used() is between 0 and N-1, available() is N - used() - 1,
\* and isEmpty() is true exactly when used() is 0.
C1_RingCapacity ==
  LET q == measuredData
  IN /\ used(q) >= 0
     /\ used(q) <= q.maxsize - 1
     /\ available(q) = q.maxsize - used(q) - 1
     /\ (isEmpty(q) <=> used(q) = 0)

\* C1 witness: a successful push has filled the queue to N-1 bytes with the
\* write cursor wrapped behind the read cursor.
C1_Witness ==
  /\ lastOp.op = "push" /\ lastOp.sts = 1
  /\ measuredData.maxsize >= 3
  /\ measuredData.wrptr < measuredData.rdptr
  /\ used(measuredData) = measuredData.maxsize - 1

\* C2: push is all-or-nothing: when the record length plus its terminator
\* exceeds available(), push returns failure and leaves both cursors and the
\* buffer (every stored record) unchanged; otherwise it returns success,
\* used() grows by exactly length+1, the read cursor stays, and the stored
\* records are the old ones followed by the new one.
C2_PushAllOrNothing ==
  [][ lastOp'.op = "push" =>
        LET q  == measuredData
            q2 == measuredData'
            n  == Len(lastOp'.s) + 1
        IN IF n > available(q)
           THEN /\ lastOp'.sts = 0
                /\ q2 = q
           ELSE /\ lastOp'.sts = 1
                /\ used(q2) = used(q) + n
                /\ q2.rdptr = q.rdptr
                /\ Stored(q2) = Append(Stored(q), lastOp'.s) ]_vars

\* C2 witness: a push that needed exactly one byte more than available()
\* failed on a queue that holds records.
C2_Witness ==
  /\ lastOp.op = "push" /\ lastOp.sts = 0
  /\ Len(lastOp.s) + 1 = available(measuredData) + 1
  /\ Len(Stored(measuredData)) >= 2
  /\ Stored(measuredData) = lastOp.before

\* C3 as stated: for every record R without a null byte and with
\* length(R) < capacity, push(R) on an empty queue followed immediately by a
\* pop with destinationCapacity > length(R)+1 returns exactly R and leaves the
\* queue empty.
C3_RoundTrip_AsStated ==
  (/\ prevOp.op = "push" /\ prevOp.before = <<>>
   /\ Len(prevOp.s) < measuredData.maxsize
   /\ lastOp.op = "pop"
   /\ lastOp.maxlen > Len(prevOp.s) + 1)
  => (/\ lastOp.sts = 1
      /\ lastOp.out = prevOp.s
      /\ isEmpty(measuredData))

\* C3 amended: the same with length(R) + 1 < capacity (the record and its
\* terminator fit the capacity-1 bytes an empty queue offers).
C3_RoundTrip ==
  (/\ prevOp.op = "push" /\ prevOp.before = <<>>
   /\ Len(prevOp.s) + 1 < measuredData.maxsize
   /\ lastOp.op = "pop"
   /\ lastOp.maxlen > Len(prevOp.s) + 1)
  => (/\ prevOp.sts = 1
      /\ lastOp.sts = 1
      /\ lastOp.out = prevOp.s
      /\ isEmpty(measuredData))

\* C3 witness: a record of the longest length was pushed on an empty queue
\* whose cursors were not at 0, read back across the end of the buffer.
C3_Witness ==
  /\ prevOp.op = "push" /\ prevOp.before = <<>> /\ Len(prevOp.s) = MaxLen
  /\ lastOp.op = "pop" /\ lastOp.maxlen > Len(prevOp.s) + 1
  /\ lastOp.out = prevOp.s
  /\ measuredData.rdptr < MaxLen + 1
  /\ measuredData.rdptr > 0

\* C5: truncation hazard.  When the first stored record is longer than
\* destinationCapacity-1 and a second record follows it, a pop with that
\* destinationCapacity returns only the first destinationCapacity-1 bytes of
\* the first record, and the next pop returns the unread remainder of the
\* first record (as much of it as that pop's destination holds) rather than
\* the second record, which is still stored behind it.
C5_TruncationHazard ==
  (/\ prevOp.op = "pop" /\ prevOp.maxlen >= 1
   /\ Len(prevOp.before) >= 2
   /\ Len(prevOp.before[1]) > prevOp.maxlen - 1
   /\ lastOp.op = "pop" /\ lastOp.maxlen >= 1)
  => LET first  == prevOp.before[1]
         rest   == Tail(prevOp.before)
         rem    == Drop(first, prevOp.maxlen - 1)
         now    == Stored(measuredData)
     IN /\ prevOp.sts = 1
        /\ prevOp.out = Take(first, prevOp.maxlen - 1)
        /\ rem # <<>>
        /\ lastOp.sts = 1
        /\ lastOp.out = Take(rem, lastOp.maxlen - 1)
        /\ (lastOp.maxlen - 1 >= Len(rem) => lastOp.out = rem)
        /\ Len(now) >= Len(rest)
        /\ SubSeq(now, Len(now) - Len(rest) + 1, Len(now)) = rest

\* C5 witness: a two-byte record was cut to its first byte, and the next pop
\* returned its second byte, which is not the record stored second.
C5_Witness ==
  /\ prevOp.op = "pop" /\ prevOp.maxlen = 2
  /\ Len(prevOp.before) >= 2
  /\ Len(prevOp.before[1]) = 2
  /\ prevOp.out = <<prevOp.before[1][1]>>
  /\ lastOp.op = "pop"
  /\ lastOp.out = <<prevOp.before[1][2]>>
  /\ lastOp.out # prevOp.before[2]

(***************************************************************************)
(* The StrQueue as a FIFO (SpecFifo): pushes, and pops whose destination   *)
(* is larger than every stored record with its terminator.  pushed and     *)
(* popped are the histories of successful calls; wrWraps and rdWraps count *)
(* (up to 2) how often each cursor went back to the start of the buffer.   *)
(***************************************************************************)
FInit ==
  /\ measuredData \in {NewStrQueue(n) : n \in 1..MaxCap}
  /\ lastOp = NoOp
  /\ prevOp = NoOp
  /\ pushed = <<>>
  /\ popped = <<>>
  /\ wrWraps = 0
  /\ rdWraps = 0
  /\ SysIdle

UpTo2(n) == IF n >= 2 THEN 2 ELSE n

FPush ==
  /\ Len(pushed) < MaxPushes
  /\ \E s \in Records :
       LET r == push(measuredData, s)
       IN /\ measuredData' = r.q
          /\ pushed' = IF r.sts = 1 THEN Append(pushed, s) ELSE pushed
          /\ wrWraps' = IF r.q.wrptr < measuredData.wrptr
                        THEN UpTo2(wrWraps + 1) ELSE wrWraps
          /\ UNCHANGED <<popped, rdWraps, lastOp, prevOp, sysvars>>

FPop ==
  \E maxlen \in DestSizes :
    /\ \A i \in 1..Len(Stored(measuredData)) :
         maxlen > Len(Stored(measuredData)[i]) + 1
    /\ LET r == pop(measuredData, maxlen)
       IN /\ measuredData' = r.q
          /\ popped' = IF r.sts = 1 THEN Append(popped, r.s) ELSE popped
          /\ rdWraps' = IF r.q.rdptr < measuredData.rdptr
                        THEN UpTo2(rdWraps + 1) ELSE rdWraps
          /\ UNCHANGED <<pushed, wrWraps, lastOp, prevOp, sysvars>>

FNext == FPush \/ FPop

SpecFifo == FInit /\ [][FNext]_vars

MaxMinute == 1
Minutes == 0..MaxMinute
\* one-minute ticks followed in the general system
MaxTicks == 1
\* one-minute ticks followed in the cadence system
MaxCadenceTicks == 120
\* size of the measurement queue in the model (QUEUESIZE is 4096)
QueueSize == 19
\* forward attempts kept in fwdLog
MaxFwdLog == 4
\* deliveries the sink lets fail in the general system
MaxFails == 2

NameA == <<51>>
AddrA == <<61, 71>>
NameB == <<52>>
AddrB == <<62, 72>>
NameC == <<53>>
Values == {<<21>>}
TimeTags == {<<31>>}

\* atoi: white space, an optional sign, then decimal digits up to the first
\* byte that is not one.  A number that does not fit an int is not defined by
\* the C library: the build returns some int, wide.
IsSpace(c) == c = 32 \/ (c >= 9 /\ c <= 13)
IsDigit(c) == c >= 48 /\ c <= 57
IntMax == 2147483647
AtoiOverflow == -1

RECURSIVE SkipSpace(_, _)
SkipSpace(s, i) ==
  IF i <= Len(s) /\ IsSpace(s[i]) THEN SkipSpace(s, i + 1) ELSE i

\* the digits from position i on, or AtoiOverflow when they pass IntMax
RECURSIVE AtoiDigits(_, _, _)
AtoiDigits(s, i, acc) ==
  IF i > Len(s) \/ ~IsDigit(s[i]) THEN acc
  ELSE LET d == s[i] - 48
       IN IF acc > IntMax \div 10 \/ (acc = IntMax \div 10 /\ d > IntMax % 10)
          THEN AtoiOverflow
          ELSE AtoiDigits(s, i + 1, acc * 10 + d)

atoi(s, wide) ==
  LET i    == SkipSpace(s, 1)
      neg  == i <= Len(s) /\ s[i] = 45
      sign == i <= Len(s) /\ (s[i] = 45 \/ s[i] = 43)
      n    == AtoiDigits(s, IF sign THEN i + 1 ELSE i, 0)
  IN IF n = AtoiOverflow THEN wide
     ELSE IF neg THEN 0 - n ELSE n

\* positions of the commas of s from position i on, in order
CommaLocs(s, i) ==
  LET at == {k \in i..Len(s) : s[k] = Comma}
  IN [n \in 1..Cardinality(at) |->
        CHOOSE k \in at : Cardinality({j \in at : j < k}) = n - 1]

\* the clamp of ValueToRead::set without its lower test
ClampMinutes_NoLowerBound(n) == IF n > 1440 THEN 1440 ELSE n

\* ValueToRead::set: minutesBetweenReads after atoi
ClampMinutes(n) == IF n < 1 THEN 1 ELSE IF n > 1440 THEN 1440 ELSE n

\* ValueToRead::set that refuses a line with more than four commas
set_RejectsExtraFields(v, s, wide) ==
  LET locs == CommaLocs(s, 1)
      c0 == IF Len(locs) >= 1 THEN locs[1] ELSE -1
      c1 == IF Len(locs) >= 2 THEN locs[2] ELSE -1
      c2 == IF Len(locs) >= 3 THEN locs[3] ELSE -1
      c3 == IF Len(locs) >= 4 THEN locs[4] ELSE -1
      v1 == [v EXCEPT !.valueTag = Strncpy(SubSeq(s, 1, c0 - 1), 63)]
      v2 == [v1 EXCEPT !.minutesBetweenReads =
                         ClampMinutes(atoi(SubSeq(s, c0 + 1, c1 - 1), wide))]
      v3 == [v2 EXCEPT !.deviceId = Strncpy(SubSeq(s, c1 + 1, c2 - 1), 37)]
      v4 == [v3 EXCEPT !.serviceUuid = Strncpy(SubSeq(s, c2 + 1, c3 - 1), 37)]
      v5 == [v4 EXCEPT !.characteristicUuid =
                         Strncpy(SubSeq(s, c3 + 1, Len(s)), 37)]
  IN IF c0 < 0 THEN [v |-> v, result |-> "format error, 1st comma not found"]
     ELSE IF c1 < 0 THEN [v |-> v1, result |-> "format error, 2nd comma not found"]
     ELSE IF c2 < 0 THEN [v |-> v2, result |-> "format error, 3rd comma not found"]
     ELSE IF c3 < 0 THEN [v |-> v3, result |-> "format error, 4th comma not found"]
     ELSE IF Len(locs) > 4 THEN [v |-> v4, result |-> "format error, too many fields"]
     ELSE [v |-> v5, result |-> "OK"]

\* ValueToRead::set on the entry v: the entry afterwards and the string
\* returned
set(v, s, wide) ==
  LET locs == CommaLocs(s, 1)
      c0 == IF Len(locs) >= 1 THEN locs[1] ELSE -1
      c1 == IF Len(locs) >= 2 THEN locs[2] ELSE -1
      c2 == IF Len(locs) >= 3 THEN locs[3] ELSE -1
      c3 == IF Len(locs) >= 4 THEN locs[4] ELSE -1
      v1 == [v EXCEPT !.valueTag = Strncpy(SubSeq(s, 1, c0 - 1), 63)]
      v2 == [v1 EXCEPT !.minutesBetweenReads =
                         ClampMinutes(atoi(SubSeq(s, c0 + 1, c1 - 1), wide))]
      v3 == [v2 EXCEPT !.deviceId = Strncpy(SubSeq(s, c1 + 1, c2 - 1), 37)]
      v4 == [v3 EXCEPT !.serviceUuid = Strncpy(SubSeq(s, c2 + 1, c3 - 1), 37)]
      v5 == [v4 EXCEPT !.characteristicUuid =
                         Strncpy(SubSeq(s, c3 + 1, Len(s)), 37)]
  IN IF c0 < 0 THEN [v |-> v, result |-> "format error, 1st comma not found"]
     ELSE IF c1 < 0 THEN [v |-> v1, result |-> "format error, 2nd comma not found"]
     ELSE IF c2 < 0 THEN [v |-> v2, result |-> "format error, 3rd comma not found"]
     ELSE IF c3 < 0 THEN [v |-> v3, result |-> "format error, 4th comma not found"]
     ELSE [v |-> v5, result |-> "OK"]

IsLine(s) == s # <<>>

\* setup(): the table made of the VALUEn= lines found (an absent key reads as
\* the empty string); nValues++ follows set() whatever it returned
SetupTable(lines, wide) ==
  LET found == SelectSeq(lines, IsLine)
  IN [i \in 1..Len(found) |-> set(NewValueToRead, found[i], wide).v]

\* setup(): the table, the queue, minuteCounter = -1, timeForScan = true,
\* lastMin = rtc.getMinute()
SetupSized(table, builds, size) ==
  /\ vals2read = table
  /\ build \in builds
  /\ measuredData = NewStrQueue(size)
  /\ minuteCounter = ULongMax
  /\ timeForScan = TRUE
  /\ lastMin \in Minutes
  /\ pc = "tick"
  /\ idx = 1
  /\ ticked = FALSE
  /\ attempts = {}
  /\ lastAdv = NoAdv
  /\ overflowed = FALSE
  /\ lastWifi = NoWifi
  /\ audit = NoAudit
  /\ buf = <<>>
  /\ nTicks = 0
  /\ nScans = 0
  /\ nFails = 0
  /\ lastRead = NoRead
  /\ lastFwd = NoFwd
  /\ fwdOpen = FALSE
  /\ fwdStart = <<>>
  /\ fwdLog = <<>>
  /\ lastOp = NoOp
  /\ prevOp = NoOp
  /\ pushed = <<>>
  /\ popped = <<>>
  /\ wrWraps = 0
  /\ rdWraps = 0

\* setup() with the queue of the model's size
Setup(table, builds) == SetupSized(table, builds, QueueSize)

\* loop(): the one-minute test and the head of the one-minute tasks
MinuteCheck(E) ==
  /\ pc = "tick"
  /\ \E currentMin \in Minutes :
       IF currentMin # lastMin
       THEN /\ minuteCounter = ULongMax \/ minuteCounter < E.maxCounter
            /\ lastMin' = currentMin
            /\ minuteCounter' = ULongInc(minuteCounter)
            /\ timeForScan' = IF ULongInc(minuteCounter) % ScanPeriod = ScanPeriod - 1
                              THEN TRUE ELSE timeForScan
            /\ pc' = "read"
            /\ idx' = 1
            /\ ticked' = TRUE
            /\ nTicks' = nTicks + 1
       ELSE /\ pc' = "scan"
            /\ ticked' = FALSE
            /\ UNCHANGED <<lastMin, minuteCounter, timeForScan, idx, nTicks>>
  /\ attempts' = {}
  /\ UNCHANGED <<measuredData, vals2read, build, lastAdv, overflowed, nScans, nFails, lastRead, lastFwd, fwdOpen, fwdStart, fwdLog>>
  /\ UNCHANGED <<hvars, fvars, config, buf, audit, lastWifi>>

\* the read loop leaving the for loop after a connect or a push that failed
ReadEntry_StopsOnFailure(E) ==
  /\ pc = "read"
  /\ idx <= Len(vals2read)
  /\ LET p == vals2read[idx]
     IN IF IsDue(minuteCounter, p)
        THEN \E connected \in E.connect, val \in E.values,
                ttag \in E.ttags :
               LET r    == readValue(p, connected, val, ReadBufLen)
                   held == StrncpyInto(buf, r.buf, ReadBufLen - 1)
                   rec  == Sprintf(ttag, p.valueTag, CStr(held), build)
               IN \E outcome \in SprintfOutcomes(rec) :
                    LET psh == IF outcome = "fault" THEN [sts |-> 0, q |-> measuredData]
                               ELSE push(measuredData, rec)
                    IN /\ vals2read' = [vals2read EXCEPT ![idx] = r.v]
                       /\ buf' = SprintfInto(held, rec)
                       /\ measuredData' = psh.q
                       /\ attempts' = attempts \cup {idx}
                       /\ lastRead' = [i |-> idx, called |-> TRUE, connected |-> connected,
                                       addr |-> p.deviceAddr,
                                       rec |-> rec, sts |-> psh.sts]
                       /\ overflowed' = (overflowed \/ (outcome # "fault" /\ psh.sts = 0))
                       /\ audit' = IF E.audit /\ psh.sts = 1
                                   THEN [audit EXCEPT !.queued = @ (+) SetToBag({rec})]
                                   ELSE audit
                       /\ fwdOpen' = TRUE
                       /\ fwdLog' = <<>>
                       /\ fwdStart' = <<>>
                       /\ pc' = IF outcome = "fault" THEN "fault" ELSE pc
                       /\ idx' = IF connected /\ psh.sts = 1 THEN idx + 1
                                 ELSE Len(vals2read) + 1
        ELSE /\ lastRead' = [NoRead EXCEPT !.i = idx]
             /\ idx' = idx + 1
             /\ UNCHANGED <<vals2read, buf, measuredData, attempts, overflowed, audit, fwdOpen, fwdLog, fwdStart, pc>>
  /\ UNCHANGED <<minuteCounter, lastMin, timeForScan, build, ticked, lastAdv, nTicks, nScans, nFails, lastFwd>>
  /\ UNCHANGED <<hvars, fvars, config, lastWifi>>

\* loop(): one pass of the for loop over vals2read.  readValue copies the
\* value into buf, sprintf formats the record in buf, and the record is
\* pushed; a record that does not fit buf is written past its end
ReadEntry(E) ==
  /\ pc = "read"
  /\ idx <= Len(vals2read)
  /\ LET p == vals2read[idx]
     IN IF IsDue(minuteCounter, p)
        THEN \E connected \in E.connect, val \in E.values,
                ttag \in E.ttags :
               LET r    == readValue(p, connected, val, ReadBufLen)
                   held == StrncpyInto(buf, r.buf, ReadBufLen - 1)
                   rec  == Sprintf(ttag, p.valueTag, CStr(held), build)
               IN \E outcome \in SprintfOutcomes(rec) :
                    LET psh == IF outcome = "fault" THEN [sts |-> 0, q |-> measuredData]
                               ELSE push(measuredData, rec)
                    IN /\ vals2read' = [vals2read EXCEPT ![idx] = r.v]
                       /\ buf' = SprintfInto(held, rec)
                       /\ measuredData' = psh.q
                       /\ attempts' = attempts \cup {idx}
                       /\ lastRead' = [i |-> idx, called |-> TRUE, connected |-> connected,
                                       addr |-> p.deviceAddr,
                                       rec |-> rec, sts |-> psh.sts]
                       /\ overflowed' = (overflowed \/ (outcome # "fault" /\ psh.sts = 0))
                       /\ audit' = IF E.audit /\ psh.sts = 1
                                   THEN [audit EXCEPT !.queued = @ (+) SetToBag({rec})]
                                   ELSE audit
                       /\ fwdOpen' = TRUE
                       /\ fwdLog' = <<>>
                       /\ fwdStart' = <<>>
                       /\ pc' = IF outcome = "fault" THEN "fault" ELSE pc
        ELSE /\ lastRead' = [NoRead EXCEPT !.i = idx]
             /\ UNCHANGED <<vals2read, buf, measuredData, attempts, overflowed, audit, fwdOpen, fwdLog, fwdStart, pc>>
  /\ idx' = idx + 1
  /\ UNCHANGED <<minuteCounter, lastMin, timeForScan, build, ticked, lastAdv, nTicks, nScans, nFails, lastFwd>>
  /\ UNCHANGED <<hvars, fvars, config, lastWifi>>

\* loop(): the for loop over vals2read ends
ReadsDone ==
  /\ pc = "read"
  /\ idx > Len(vals2read)
  /\ pc' = "scan"
  /\ lastRead' = NoRead
  /\ UNCHANGED <<measuredData, vals2read, minuteCounter, lastMin, timeForScan, idx, build>>
  /\ UNCHANGED <<ticked, attempts, lastAdv, overflowed, nTicks, nScans, nFails, lastFwd, fwdOpen, fwdStart, fwdLog, hvars, fvars, config, buf, audit, lastWifi>>

\* loop(): if (timeForScan) pBLEScan->start(...), which blocks while scanning
ScanStart ==
  /\ pc = "scan"
  /\ IF timeForScan
     THEN pc' = "scanning" /\ nScans' = nScans + 1
     ELSE pc' = "wifi" /\ UNCHANGED nScans
  /\ UNCHANGED <<measuredData, vals2read, minuteCounter, lastMin, timeForScan, idx, build>>
  /\ UNCHANGED <<ticked, attempts, lastAdv, overflowed, nTicks, nFails, lastRead, lastFwd, fwdOpen, fwdStart, fwdLog, hvars, fvars, config, buf, audit, lastWifi>>

\* the entries whose deviceId is the name or the address of an advertisement
Matching(table, adv) ==
  {i \in 1..Len(table) : table[i].deviceId = adv.name \/ table[i].deviceId = adv.addr}

\* a device advertises during the scan: onResult is called back
OnResult(E) ==
  /\ pc = "scanning"
  /\ \E adv \in E.adv :
       /\ vals2read' = onResult(vals2read, adv.name, adv.addr)
       /\ lastAdv' = [seen |-> TRUE, name |-> adv.name, addr |-> adv.addr,
                      before |-> vals2read]
       /\ audit' = IF E.audit
                   THEN [audit EXCEPT !.matched =
                           @ \cup {<<i, adv.addr>> : i \in Matching(vals2read, adv)}]
                   ELSE audit
  /\ UNCHANGED <<measuredData, minuteCounter, lastMin, timeForScan, pc, idx, build>>
  /\ UNCHANGED <<ticked, attempts, overflowed, nTicks, nScans, nFails, lastRead, lastFwd, fwdOpen, fwdStart, fwdLog>>
  /\ UNCHANGED <<hvars, fvars, config, buf, lastWifi>>

\* ScanDone leaving timeForScan set
ScanDone_KeepsFlag ==
  /\ pc = "scanning"
  /\ pc' = "wifi"
  /\ lastAdv' = NoAdv
  /\ UNCHANGED <<measuredData, vals2read, minuteCounter, lastMin, timeForScan, idx, build>>
  /\ UNCHANGED <<ticked, attempts, overflowed, nTicks, nScans, nFails, lastRead, lastFwd, fwdOpen, fwdStart, fwdLog>>
  /\ UNCHANGED <<hvars, fvars, config, buf, audit, lastWifi>>

\* loop(): the scan returns; clearResults(); timeForScan = false
ScanDone ==
  /\ pc = "scanning"
  /\ timeForScan' = FALSE
  /\ pc' = "wifi"
  /\ lastAdv' = NoAdv
  /\ UNCHANGED <<measuredData, vals2read, minuteCounter, lastMin, idx, build>>
  /\ UNCHANGED <<ticked, attempts, overflowed, nTicks, nScans, nFails, lastRead, lastFwd, fwdOpen, fwdStart, fwdLog>>
  /\ UNCHANGED <<hvars, fvars, config, buf, audit, lastWifi>>

\* the WiFi block advancing minuteCounter when it moves lastMin
WifiCheck_CountsMinute(E) ==
  /\ pc = "wifi"
  /\ \E up \in E.wifi :
       /\ IF up THEN UNCHANGED lastMin
          ELSE \E m \in Minutes : lastMin' = m
       /\ lastWifi' = [moved |-> lastMin' # lastMin]
  /\ minuteCounter' = IF lastMin' # lastMin /\ minuteCounter # ULongMax
                      THEN minuteCounter + 1 ELSE minuteCounter
  /\ pc' = "forward"
  /\ UNCHANGED <<measuredData, vals2read, timeForScan, idx, build>>
  /\ UNCHANGED <<histvars, hvars, fvars, config, buf, audit>>

\* loop(): if WiFi is disconnected, reconnect and lastMin = rtc.getMinute()
WifiCheck(E) ==
  /\ pc = "wifi"
  /\ \E up \in E.wifi :
       /\ IF up THEN UNCHANGED lastMin
          ELSE \E m \in Minutes : lastMin' = m
       /\ lastWifi' = [moved |-> lastMin' # lastMin]
  /\ pc' = "forward"
  /\ UNCHANGED <<measuredData, vals2read, minuteCounter, timeForScan, idx, build>>
  /\ UNCHANGED <<histvars, hvars, fvars, config, buf, audit>>

\* a requeue that reports success and stores nothing
Requeue_Dropped(q, s) == [sts |-> 1, q |-> q]

\* a requeue that loses the record's last byte
Requeue_Truncated(q, s) == push(q, Take(s, Len(s) - 1))

\* a requeue that puts the record back where pop took it, at the head
Requeue_AtHead(q, s) ==
  [sts |-> 1, q |-> [q EXCEPT !.rdptr = (q.rdptr + q.maxsize - (Len(s) + 1)) % q.maxsize]]

\* loop(): measuredData.push(buf1) after a delivery that failed
Requeue(q, s) == push(q, s)

\* the tag field of a record: the bytes between its first two commas
TagOf(rec) ==
  LET locs == CommaLocs(rec, 1)
  IN SubSeq(rec, locs[1] + 1, locs[2] - 1)

\* forwardValueToIotHub(msg) for a record the sink answers with a code other
\* than 200 on every attempt: the records of the tags in E.dead
Refused(E, rec) ==
  /\ Len(CommaLocs(rec, 1)) >= 2
  /\ TagOf(rec) \in E.dead

\* loop(): push any queued data to the IoT hub
Forward(E) ==
  /\ pc = "forward"
  /\ IF isEmpty(measuredData)
     THEN /\ lastFwd' = NoFwd
          /\ UNCHANGED <<measuredData, nFails, audit, fwdOpen, fwdStart, fwdLog>>
     ELSE LET r == pop(measuredData, Buf1Size)
          IN IF r.sts = 1 /\ Len(r.s) > 0
             THEN \E ok \in (IF Refused(E, r.s) THEN {FALSE} ELSE E.deliver) :
                    LET back == Requeue(r.q, r.s)
                        log  == Append(fwdLog, [rec |-> r.s, ok |-> ok])
                    IN /\ ok \/ Refused(E, r.s) \/ nFails < E.maxFails
                       /\ nFails' = IF ok \/ nFails >= E.maxFails THEN nFails
                                    ELSE nFails + 1
                       /\ measuredData' = IF ok THEN r.q ELSE back.q
                       /\ audit' = IF E.audit /\ ok
                                   THEN [audit EXCEPT !.delivered = @ (+) SetToBag({r.s})]
                                   ELSE audit
                       /\ lastFwd' = [tried |-> TRUE, ok |-> ok,
                                      requeued |-> IF ok THEN 0 ELSE back.sts]
                       /\ IF ~fwdOpen
                          THEN UNCHANGED <<fwdOpen, fwdStart, fwdLog>>
                          ELSE /\ fwdStart' = IF fwdLog = <<>> THEN Stored(measuredData)
                                              ELSE fwdStart
                               /\ fwdLog' = log
                               /\ fwdOpen' = (Len(log) < MaxFwdLog)
             ELSE /\ measuredData' = r.q
                  /\ lastFwd' = NoFwd
                  /\ UNCHANGED <<nFails, audit, fwdOpen, fwdStart, fwdLog>>
  /\ pc' = "tick"
  /\ lastWifi' = NoWifi
  /\ UNCHANGED <<vals2read, minuteCounter, lastMin, timeForScan, idx, build>>
  /\ UNCHANGED <<ticked, attempts, lastAdv, overflowed, nTicks, nScans, lastRead, hvars, fvars, config, buf>>

Loop(E) ==
  \/ MinuteCheck(E)
  \/ ReadEntry(E)
  \/ ReadsDone
  \/ ScanStart
  \/ OnResult(E)
  \/ ScanDone
  \/ WifiCheck(E)
  \/ Forward(E)

(***************************************************************************)
(* The general system: three entries on two devices, every outcome of      *)
(* every input, a few ticks.                                               *)
(***************************************************************************)
Table ==
  << Configured(<<11>>, 1, NameA), Configured(<<12>>, 1, AddrA),
     Configured(<<13>>, 2, NameB) >>

Env ==
  [maxCounter |-> MaxTicks - 1, connect |-> BOOLEAN, deliver |-> BOOLEAN,
   maxFails |-> MaxFails,
   dead |-> {}, audit |-> FALSE, ttags |-> TimeTags, wifi |-> BOOLEAN, values |-> Values,
   adv |-> {[name |-> NameA, addr |-> AddrA], [name |-> NameB, addr |-> AddrB]}]

Init == config = <<>> /\ Setup(Table, SprintfBuilds)

Next == Loop(Env)

Spec == Init /\ [][Next]_vars

(***************************************************************************)
(* Properties of the forwarder and of the read loop (Spec).                *)
(***************************************************************************)
FwdOks == [i \in 1..Len(fwdLog) |-> fwdLog[i].ok]
FwdRecs == [i \in 1..Len(fwdLog) |-> fwdLog[i].rec]
IsOk(e) == e.ok
FwdDelivered ==
  LET oks == SelectSeq(fwdLog, IsOk)
  IN [i \in 1..Len(oks) |-> oks[i].rec]

\* C8: round robin of the forwarder.  With A, B, C queued in that order, no
\* read pushing in between, and the deliveries succeeding for A, failing for B
\* once, then succeeding: the loop iterations attempt A, B, C, B; after each
\* attempt the queue holds B,C then C,B then B then nothing; so the records
\* are delivered in the order A, C, B, each exactly once.
C8_RoundRobin ==
  Len(fwdStart) = 3 =>
    LET A == fwdStart[1]
        B == fwdStart[2]
        C == fwdStart[3]
        q == Stored(measuredData)
    IN /\ (FwdOks = <<TRUE>> => FwdRecs = <<A>> /\ q = <<B, C>>)
       /\ (FwdOks = <<TRUE, FALSE>> => FwdRecs = <<A, B>> /\ q = <<C, B>>)
       /\ (FwdOks = <<TRUE, FALSE, TRUE>> => FwdRecs = <<A, B, C>> /\ q = <<B>>)
       /\ (FwdOks = <<TRUE, FALSE, TRUE, TRUE>> =>
             /\ FwdRecs = <<A, B, C, B>>
             /\ FwdDelivered = <<A, C, B>>
             /\ q = <<>>)

\* C8 witness: three different records went through the four attempts.
C8_Witness ==
  /\ Len(fwdStart) = 3
  /\ fwdStart[1] # fwdStart[2] /\ fwdStart[2] # fwdStart[3]
  /\ fwdStart[1] # fwdStart[3]
  /\ FwdOks = <<TRUE, FALSE, TRUE, TRUE>>
  /\ isEmpty(measuredData)

\* C9: a failed delivery is never lost.  In every loop iteration whose
\* forward block popped a record and failed to deliver it, the requeueing push
\* succeeds and the queue at the end of the iteration holds the other records
\* followed by that record, byte for byte, occupying as many bytes as before;
\* this holds for each of any number of consecutive failures.
C9_FailedDeliveryRequeued ==
  [][(pc = "forward" /\ pc' = "tick" /\ lastFwd'.tried /\ ~lastFwd'.ok) =>
       /\ lastFwd'.requeued = 1
       /\ Stored(measuredData) # <<>>
       /\ Stored(measuredData)' =
            Append(Tail(Stored(measuredData)), Head(Stored(measuredData)))
       /\ used(measuredData)' = used(measuredData)]_vars

\* C9 witness: the second failure in a row, with a queue that had no byte
\* free when the record was popped, and the record is back at the tail.
C9_Witness ==
  /\ pc = "tick"
  /\ lastFwd.tried /\ ~lastFwd.ok /\ lastFwd.requeued = 1
  /\ nFails >= 2
  /\ available(measuredData) = 0
  /\ Len(Stored(measuredData)) = 3

\* a read of entry idx whose connect failed
FailedRead ==
  /\ pc = "read" /\ idx' = idx + 1
  /\ lastRead'.called /\ ~lastRead'.connected

FailedReadMarked ==
  /\ vals2read'[idx].errors = BitOr(vals2read[idx].errors, BLESVR_ERR_CONNECTFAIL)
  /\ (vals2read'[idx].errors \div BLESVR_ERR_CONNECTFAIL) % 2 = 1
  /\ vals2read'[idx].connects = vals2read[idx].connects

WellFormedRecords(tag) ==
  {ttag \o <<Comma>> \o tag \o <<Comma>> \o val : ttag \in TimeTags, val \in Values}

\* C15 as stated: on a successful connect and read for a due entry, connects
\* grows by exactly one and the record handed to push is exactly the text
\* timestamp "," tag "," value, with the entry's tag and a value read from the
\* peripheral.
C15_SuccessRecord_AsStated ==
  [][(/\ pc = "read" /\ idx' = idx + 1
      /\ lastRead'.called /\ lastRead'.connected) =>
       /\ vals2read'[idx].connects = vals2read[idx].connects + 1
       /\ lastRead'.rec \in WellFormedRecords(vals2read[idx].valueTag)]_vars

\* C15 witness: a connect and read succeeded, connects was counted, and the
\* record pushed is not timestamp "," tag "," value for any value.
C15_Witness ==
  /\ pc = "read"
  /\ lastRead.called /\ lastRead.connected /\ lastRead.sts = 1
  /\ vals2read[lastRead.i].connects = 1
  /\ lastRead.rec \notin WellFormedRecords(vals2read[lastRead.i].valueTag)
  /\ Stored(measuredData)[Len(Stored(measuredData))] = lastRead.rec

\* the step in which the one-minute test finds the minute changed
TickStep ==
  /\ pc = "tick" /\ pc' = "read"
  /\ lastMin' # lastMin
  /\ minuteCounter' = (IF nTicks = 0 THEN 0 ELSE minuteCounter + 1)
  /\ nTicks' = nTicks + 1

\* C17 as stated: minuteCounter and lastMin are modified only by a minute
\* tick, which sets lastMin to the minute seen and advances the counter by
\* exactly one (the first tick giving 0); no other step of the loop changes
\* either of them.
C17_TickFrame_AsStated ==
  [][(minuteCounter' # minuteCounter \/ lastMin' # lastMin) => TickStep]_vars

\* C17: minuteCounter is modified only by a minute tick, which happens when
\* the one-minute test sees a minute other than lastMin, sets lastMin to it
\* and advances the counter by exactly one (the first tick giving 0).  lastMin
\* is modified by a tick and, besides, by the WiFi block, which sets it to the
\* minute of the clock whenever it had to reconnect and leaves the counter
\* alone: a minute that changed since the one-minute test is then taken up
\* without a tick.
C17_TickFrame ==
  [][/\ (minuteCounter' # minuteCounter => TickStep)
     /\ (pc = "tick" /\ pc' = "read" => TickStep)
     /\ (pc = "tick" /\ pc' = "scan" =>
           lastMin' = lastMin /\ minuteCounter' = minuteCounter)
     /\ (lastMin' # lastMin =>
           \/ TickStep
           \/ /\ pc = "wifi" /\ pc' = "forward"
              /\ lastWifi'.moved
              /\ minuteCounter' = minuteCounter /\ nTicks' = nTicks)]_vars

\* C17 witness: in an iteration whose one-minute test saw no new minute, the
\* WiFi block gave lastMin another value, and no tick was counted for it.
C17_Witness ==
  /\ pc = "forward"
  /\ ~ticked
  /\ lastWifi.moved
  /\ nTicks = 1 /\ minuteCounter = 0

(***************************************************************************)
(* The configured system: setup() builds the table from the VALUEn= lines  *)
(* of a configuration file, well formed or cut short before one of their   *)
(* commas, and the loop runs on it.  Two devices advertise the same name   *)
(* and a third advertises no name.                                         *)
(***************************************************************************)
\* VALUEn= lines setup() looks at
MaxLines == 3
\* what atoi may return for a number that does not fit an int
AtoiWide == {0 - IntMax, 0, IntMax}

ConfigLine(tag, minutes, dev) ==
  tag \o <<Comma>> \o minutes \o <<Comma>> \o dev \o <<Comma>> \o Svc
      \o <<Comma>> \o Chr

\* the line s up to its k-th comma, or whole if it has fewer commas
CutAt(s, k) ==
  LET locs == CommaLocs(s, 1)
  IN IF k <= Len(locs) THEN Take(s, locs[k] - 1) ELSE s

\* well-formed lines: a device given by name, a device given by address
LineByName == ConfigLine(<<65>>, <<49>>, NameA)
LineByAddr == ConfigLine(<<66>>, <<49>>, AddrB)

\* the value of a VALUEn= key: absent, well formed, or cut short
ConfigLines ==
  {<<>>, LineByAddr} \cup {CutAt(LineByName, k) : k \in 1..5}

\* a file of MaxLines VALUEn= keys, all well formed except perhaps the i-th
FileWith(i, line) ==
  [j \in 1..MaxLines |-> IF j = i THEN line
                         ELSE IF j % 2 = 0 THEN LineByName ELSE LineByAddr]

ConfigFiles == {FileWith(i, line) : i \in 1..MaxLines, line \in ConfigLines}

ConfigEnv ==
  [maxCounter |-> MaxTicks - 1, connect |-> {TRUE}, deliver |-> {TRUE},
   maxFails |-> 0, dead |-> {}, audit |-> FALSE, ttags |-> TimeTags, wifi |-> {TRUE}, values |-> {<<21>>},
   adv |-> {[name |-> NameA, addr |-> AddrA], [name |-> NameA, addr |-> AddrB],
            [name |-> <<>>, addr |-> AddrB]}]

ConfigInit ==
  \E lines \in ConfigFiles, wide \in AtoiWide :
    /\ config = SelectSeq(lines, IsLine)
    /\ Setup(SetupTable(lines, wide), SprintfBuilds)

ConfigNext == Loop(ConfigEnv)

SpecConfig == ConfigInit /\ [][ConfigNext]_vars

\* what set() answered for the i-th line found
ParseResult(i) == set(NewValueToRead, config[i], 0).result

\* C11 as stated: a configuration line whose parse fails adds no entry to the
\* table (the table has one entry per line that parsed), so no entry built
\* from a failed parse is ever resolved, read or the source of a record.
C11_FailedParseDiscarded_AsStated ==
  /\ Len(vals2read) =
       Cardinality({i \in 1..Len(config) : ParseResult(i) = "OK"})
  /\ \A i \in 1..Len(vals2read) :
       (i <= Len(config) /\ ParseResult(i) # "OK") =>
          /\ vals2read[i].deviceAddr = <<>>
          /\ i \notin attempts

\* C11 witness: an entry left by a line whose parse failed was resolved by a
\* scan, came due, was read, and its record is in the queue.
C11_Witness ==
  /\ pc = "read"
  /\ lastRead.called /\ lastRead.sts = 1 /\ lastRead.connected
  /\ lastRead.i <= Len(config)
  /\ ParseResult(lastRead.i) = "format error, 1st comma not found"
  /\ vals2read[lastRead.i].deviceAddr # <<>>
  /\ lastRead.i \in attempts
  /\ Stored(measuredData) # <<>>
  /\ Stored(measuredData)[Len(Stored(measuredData))] = lastRead.rec

\* C12: discovery event.  After onResult ran for an advertisement (name,
\* address), every entry whose deviceId equals the name or equals the address
\* has the address as its deviceAddr, whatever it had before; every other
\* entry and every other field is as it was before; and the same
\* advertisement once more would change nothing.
C12_DiscoveryEvent ==
  lastAdv.seen =>
    LET Matches(p) == p.deviceId = lastAdv.name \/ p.deviceId = lastAdv.addr
        After(p) == IF Matches(p) THEN [p EXCEPT !.deviceAddr = lastAdv.addr]
                    ELSE p
    IN /\ pc = "scanning"
       /\ Len(vals2read) = Len(lastAdv.before)
       /\ \A i \in 1..Len(vals2read) :
            /\ vals2read[i] = After(lastAdv.before[i])
            /\ After(vals2read[i]) = vals2read[i]
            /\ (Matches(vals2read[i]) => vals2read[i].deviceAddr = lastAdv.addr)
            /\ (~Matches(vals2read[i]) => vals2read[i] = lastAdv.before[i])

\* C12 witness: one advertisement gave two entries of the same device a new
\* address in place of an older one and left a third entry alone.
C12_Witness ==
  /\ lastAdv.seen
  /\ \E i, j, k \in 1..Len(vals2read) :
       /\ i # j
       /\ lastAdv.before[i].deviceAddr # <<>>
       /\ lastAdv.before[i].deviceAddr # lastAdv.addr
       /\ vals2read[i].deviceAddr = lastAdv.addr
       /\ vals2read[j].deviceAddr = lastAdv.addr
       /\ vals2read[i].deviceId = vals2read[j].deviceId
       /\ vals2read[k].deviceId # vals2read[i].deviceId
       /\ vals2read[k] = lastAdv.before[k]

(***************************************************************************)
(* ValueToRead::set on its own: an entry as the constructor leaves it, and *)
(* set called on it with lines of every shape.                             *)
(***************************************************************************)
\* length of the interval field of a line, in bytes
MaxDigits == 3
\* bytes of the interval field: 0 1 4 9 - x
FieldBytes == {48, 49, 52, 57, 45, 120}
Nines == <<57, 57, 57, 57, 57, 57, 57, 57, 57, 57>>
\* interval fields: every short one, 1440 and its neighbours, the largest
\* int, and numbers that do not fit an int
IntervalTexts ==
  SeqsUpTo(FieldBytes, MaxDigits)
    \cup {<<49, 52, 52, 48>>, <<49, 52, 52, 49>>, <<49, 52, 51, 57>>,
          <<32, 49, 52, 52, 49>>, <<43, 49, 52, 52, 49>>,
          <<50, 49, 52, 55, 52, 56, 51, 54, 52, 55>>,
          <<50, 49, 52, 55, 52, 56, 51, 54, 52, 56>>,
          Nines, <<45>> \o Nines}

\* lines with a comma after the characteristic: a sixth field, or nothing
ExtraFieldLines ==
  {ConfigLine(<<65>>, <<49>>, NameA) \o <<Comma>> \o tail : tail \in {<<>>, <<88>>}}

ParseLines ==
  {CutAt(ConfigLine(<<65>>, text, NameA), k) : text \in IntervalTexts, k \in 1..5}
    \cup ExtraFieldLines

ParseInit ==
  /\ config = <<>>
  /\ vals2read = <<NewValueToRead>>
  /\ build = "argFirst"
  /\ measuredData = NewStrQueue(QueueSize)
  /\ minuteCounter = ULongMax
  /\ timeForScan = TRUE
  /\ lastMin = 0
  /\ pc = "setup"
  /\ idx = 1
  /\ ticked = FALSE
  /\ attempts = {}
  /\ lastAdv = NoAdv
  /\ overflowed = FALSE
  /\ lastWifi = NoWifi
  /\ audit = NoAudit
  /\ buf = <<>>
  /\ nTicks = 0
  /\ nScans = 0
  /\ nFails = 0
  /\ lastRead = NoRead
  /\ lastFwd = NoFwd
  /\ fwdOpen = FALSE
  /\ fwdStart = <<>>
  /\ fwdLog = <<>>
  /\ lastOp = NoOp
  /\ prevOp = NoOp
  /\ pushed = <<>>
  /\ popped = <<>>
  /\ wrWraps = 0
  /\ rdWraps = 0

\* set(line) is called on the new entry, as setup() does; config keeps the
\* line and what atoi returns in this build for a number that does not fit
Parse ==
  \E line \in ParseLines, wide \in AtoiWide :
    /\ config = <<>>
    /\ vals2read' = <<set(vals2read[1], line, wide).v>>
    /\ config' = <<line, wide>>
    /\ UNCHANGED <<measuredData, minuteCounter, lastMin, timeForScan, pc, idx, build>>
    /\ UNCHANGED <<histvars, hvars, fvars, lastWifi, audit, buf>>

ParseNext == Parse

SpecParse == ParseInit /\ [][ParseNext]_vars

\* the interval field of a line with at least two commas
IntervalField(line) ==
  LET locs == CommaLocs(line, 1)
  IN SubSeq(line, locs[1] + 1, locs[2] - 1)

\* C13: interval range.  The interval of an entry is in [1, 1440] from its
\* construction on and after any parse, whether the parse succeeds or fails.
\* When the line has an interval field, the interval is the number parsed
\* from it, except that a number below 1 gives 1 and a number above 1440 gives
\* 1440; and the parse fails only for want of a comma, never because of the
\* interval.
C13_IntervalRange ==
  /\ \A i \in 1..Len(vals2read) :
       /\ vals2read[i].minutesBetweenReads >= 1
       /\ vals2read[i].minutesBetweenReads <= 1440
  /\ (pc = "setup" /\ config # <<>>) =>
       LET line == config[1]
           commas == Len(CommaLocs(line, 1))
           n == atoi(IntervalField(line), config[2])
           m == vals2read[1].minutesBetweenReads
           r == set(NewValueToRead, line, config[2]).result
       IN /\ (commas >= 2 /\ n < 1 => m = 1)
          /\ (commas >= 2 /\ n > 1440 => m = 1440)
          /\ (commas >= 2 /\ n >= 1 /\ n <= 1440 => m = n)
          /\ (r = "OK" <=> commas >= 4)

\* C13 witness: a well-formed line asking for 1441 minutes parsed with
\* success and left the interval at 1440.
C13_Witness ==
  /\ pc = "setup" /\ config # <<>>
  /\ Len(CommaLocs(config[1], 1)) = 4
  /\ IntervalField(config[1]) = <<49, 52, 52, 49>>
  /\ set(NewValueToRead, config[1], config[2]).result = "OK"
  /\ vals2read[1].minutesBetweenReads = 1440

\* the message of set for a missing n-th comma
CommaMessage(n) ==
  CASE n = 1 -> "format error, 1st comma not found"
    [] n = 2 -> "format error, 2nd comma not found"
    [] n = 3 -> "format error, 3rd comma not found"
    [] n = 4 -> "format error, 4th comma not found"

\* the k-th of the five fields of an entry, in the order of the line
EntryField(e, k) ==
  CASE k = 1 -> e.valueTag
    [] k = 2 -> e.minutesBetweenReads
    [] k = 3 -> e.deviceId
    [] k = 4 -> e.serviceUuid
    [] k = 5 -> e.characteristicUuid

\* the parse of the line kept in config, on a new entry
Parsed == set(NewValueToRead, config[1], config[2])

MaxReadTicks == 3

ReadsTable ==
  << Configured(<<11>>, 1, NameA), Configured(<<12>>, 2, NameA),
     Configured(<<13>>, 1, NameA) >>

ReadsEnv ==
  [maxCounter |-> MaxReadTicks - 1, connect |-> BOOLEAN, deliver |-> {TRUE},
   maxFails |-> 0, dead |-> {}, audit |-> FALSE, ttags |-> TimeTags, wifi |-> {TRUE}, values |-> {<<21>>},
   adv |-> {[name |-> NameA, addr |-> AddrA]}]

ReadsInit == config = <<>> /\ Setup(ReadsTable, SprintfBuilds)

ReadsNext == Loop(ReadsEnv)

SpecReads == ReadsInit /\ [][ReadsNext]_vars

\* C14: sticky errors, monotone connects.  In every step and for every
\* entry, each error bit set before the step is set after it and connects is
\* not smaller than before; and the two fields of an entry change only in
\* the step of the read loop that calls readValue for that entry.
C14_StickyErrors ==
  [][/\ Len(vals2read') = Len(vals2read)
     /\ \A i \in 1..Len(vals2read) :
          LET old == vals2read[i]
              new == vals2read'[i]
          IN /\ \A b \in ErrorBits : HasBit(old.errors, b) => HasBit(new.errors, b)
             /\ new.connects >= old.connects
             /\ (new.errors # old.errors \/ new.connects # old.connects) =>
                  /\ pc = "read" /\ pc' = "read"
                  /\ idx = i /\ idx' = i + 1
                  /\ lastRead'.called /\ lastRead'.i = i
                  /\ \A j \in 1..Len(vals2read) : j # i => vals2read'[j] = vals2read[j]
    ]_vars

\* C14 witness: an entry whose connect failed on an earlier tick has just
\* been read with success; the error bit is still set and connects counts.
C14_Witness ==
  /\ pc = "read"
  /\ lastRead.called /\ lastRead.connected
  /\ HasBit(vals2read[lastRead.i].errors, BLESVR_ERR_CONNECTFAIL)
  /\ vals2read[lastRead.i].connects >= 1
  /\ nTicks >= 2

(***************************************************************************)
(* The cadence system: entries read every 1, 5 and 60 minutes on a device  *)
(* that advertises, a fourth on a device that never does, followed for     *)
(* MaxCadenceTicks ticks with every connect and every delivery succeeding. *)
(***************************************************************************)
CadenceTable ==
  << Configured(<<11>>, 1, NameA), Configured(<<12>>, 5, NameA),
     Configured(<<13>>, 60, NameA), Configured(<<14>>, 1, NameC) >>

CadenceEnv ==
  [maxCounter |-> MaxCadenceTicks - 1, connect |-> {TRUE}, deliver |-> {TRUE},
   maxFails |-> 0, dead |-> {}, audit |-> FALSE, ttags |-> TimeTags, wifi |-> BOOLEAN, values |-> {<<21>>},
   adv |-> {[name |-> NameA, addr |-> AddrA]}]

CadenceInit == config = <<>> /\ Setup(CadenceTable, {"argFirst"})

CadenceNext == Loop(CadenceEnv)

SpecCadence == CadenceInit /\ [][CadenceNext]_vars

(***************************************************************************)
(* Properties of the schedule (SpecCadence).                               *)
(***************************************************************************)
\* the device of entry j has been seen by a scan
Resolved(j) == vals2read[j].deviceAddr # <<>>

\* entries among the first n that the tick with the current counter reads
DueUpTo(n) ==
  {j \in 1..n : /\ Resolved(j)
                /\ minuteCounter % vals2read[j].minutesBetweenReads = 0}

\* C6: read cadence.  The counter is 0 on the first tick and one more on each
\* later tick.  On a tick, an entry whose device has been seen is read exactly
\* when the counter is a multiple of its interval, and an entry whose device
\* has not been seen is never read.  For entries with intervals 1, 5 and 60 on
\* a seen device: all three are read when the counter is a multiple of 60 (0,
\* 60), the 1- and 5-minute entries when it is another multiple of 5, and
\* only the 1-minute entry otherwise.
C6_ReadCadence ==
  /\ (nTicks = 0 <=> minuteCounter = ULongMax)
  /\ (nTicks > 0 => minuteCounter = nTicks - 1)
  /\ (pc = "read" => attempts = DueUpTo(idx - 1))
  /\ (pc = "scan" /\ ticked => attempts = DueUpTo(Len(vals2read)))
  /\ (pc = "scan" /\ ~ticked => attempts = {})
  /\ \A j \in attempts : Resolved(j)
  /\ (/\ pc = "scan" /\ ticked
      /\ Resolved(1) /\ Resolved(2) /\ Resolved(3)
      /\ vals2read[1].minutesBetweenReads = 1
      /\ vals2read[2].minutesBetweenReads = 5
      /\ vals2read[3].minutesBetweenReads = 60)
     => attempts \cap {1, 2, 3} =
          IF minuteCounter % 60 = 0 THEN {1, 2, 3}
          ELSE IF minuteCounter % 5 = 0 THEN {1, 2}
          ELSE {1}

\* C6 witness: the tick with counter 60 read the three entries of the seen
\* device and not the entry of the device that was never seen.
C6_Witness ==
  /\ pc = "scan" /\ ticked
  /\ minuteCounter = 60
  /\ attempts = {1, 2, 3}
  /\ ~Resolved(4)

\* ticks so far that set timeForScan: those with minuteCounter % 60 = 59
ScanRequests ==
  IF minuteCounter = ULongMax THEN 0 ELSE (minuteCounter + 1) \div 60

\* C7: rediscovery flag.  timeForScan is true at startup; a scan consumes it,
\* so that it is false when the following loop iteration starts; from then on
\* it is true exactly between a tick whose counter mod 60 is 59 and the scan
\* of the same iteration; and the scans started are the startup scan plus one
\* for each such tick.
C7_RediscoveryFlag ==
  /\ (nScans = 0 => timeForScan /\ pc \in {"tick", "read", "scan"})
  /\ (pc = "tick" /\ nScans > 0 => ~timeForScan)
  /\ (pc \in {"wifi", "forward"} => ~timeForScan)
  /\ (pc = "scanning" => timeForScan)
  /\ (pc = "read" \/ (pc = "scan" /\ ticked) =>
        (timeForScan <=> (nScans = 0 \/ minuteCounter % 60 = 59)))
  /\ (pc = "scan" /\ ~ticked => (timeForScan <=> nScans = 0))
  /\ (pc \in {"scanning", "wifi", "forward"} => nScans = 1 + ScanRequests)
  /\ (pc = "tick" /\ nScans > 0 => nScans = 1 + ScanRequests)
  /\ (pc \in {"read", "scan"} /\ nScans > 0 =>
        nScans = IF timeForScan THEN ScanRequests ELSE 1 + ScanRequests)

\* C7 witness: the tick with counter 119 set the flag a second time and the
\* third scan is running.
C7_Witness ==
  /\ pc = "scanning"
  /\ minuteCounter = 119
  /\ nScans = 3

(***************************************************************************)
(* Properties of the read loop over several ticks (SpecReads).             *)
(***************************************************************************)
\* the step of the read loop in which push refused the record just read
OverflowStep ==
  /\ pc = "read" /\ idx' = idx + 1
  /\ lastRead'.called /\ lastRead'.sts = 0

\* C16: queue full.  When push refuses the record just read, the queue is
\* left as it was (same records, same order), the read loop goes on to the next
\* entry without reading this one again, and the tick counter is untouched;
\* and once an overflow has happened the counter still counts every tick and
\* each tick still reads exactly the entries that are due.
C16_QueueFullDropsRecord ==
  /\ [][OverflowStep =>
          /\ measuredData' = measuredData
          /\ Stored(measuredData)' = Stored(measuredData)
          /\ Len(lastRead'.rec) + 1 > available(measuredData)
          /\ idx \notin attempts /\ attempts' = attempts \cup {idx}
          /\ minuteCounter' = minuteCounter /\ lastMin' = lastMin
          /\ timeForScan' = timeForScan /\ pc' = "read"
          /\ overflowed']_vars
  /\ [](overflowed =>
          /\ minuteCounter = nTicks - 1
          /\ (pc = "read" => attempts = DueUpTo(idx - 1))
          /\ (pc = "scan" /\ ticked => attempts = DueUpTo(Len(vals2read))))

\* C16 witness: a record was refused on an earlier tick, and the third tick
\* has just read its first due entry and queued its record.
C16_Witness ==
  /\ overflowed
  /\ pc = "read" /\ idx = 2
  /\ nTicks = 3 /\ minuteCounter = 2
  /\ attempts = {1}
  /\ lastRead.called /\ lastRead.sts = 1
  /\ Stored(measuredData)[Len(Stored(measuredData))] = lastRead.rec

\* entry j is due on the tick with the current counter
Due(j) == Resolved(j) /\ minuteCounter % vals2read[j].minutesBetweenReads = 0

\* C18: order within a tick.  The read loop takes the entries one at a time
\* in table order; it calls readValue for an entry exactly when the entry is
\* due, once, and goes on to the next entry whether the connect failed or the
\* queue refused the record; a record that is accepted goes to the tail of the
\* queue, so the records pushed in a tick are queued in table order.
C18_TableOrderInTick ==
  /\ [][(pc = "read" /\ pc' = "read") =>
          /\ idx' = idx + 1
          /\ lastRead'.i = idx
          /\ (lastRead'.called <=> Due(idx))
          /\ idx \notin attempts
          /\ \A j \in attempts : j < idx
          /\ attempts' = IF Due(idx) THEN attempts \cup {idx} ELSE attempts
          /\ Stored(measuredData)' =
               IF lastRead'.called /\ lastRead'.sts = 1
               THEN Append(Stored(measuredData), lastRead'.rec)
               ELSE Stored(measuredData)
          /\ (lastRead'.called => TagOf(lastRead'.rec) = vals2read[idx].valueTag)
       ]_vars
  /\ [](pc = "read" => attempts = {j \in 1..(idx - 1) : Due(j)})
  /\ [](pc = "scan" /\ ticked => attempts = {j \in 1..Len(vals2read) : Due(j)})

\* C18 witness: on the first tick the connects of the first two entries
\* failed and the third entry was read with success all the same; the three
\* records are queued in table order.
C18_Witness ==
  /\ pc = "scan" /\ ticked /\ nTicks = 1
  /\ attempts = {1, 2, 3}
  /\ vals2read[1].errors = BLESVR_ERR_CONNECTFAIL /\ vals2read[1].connects = 0
  /\ vals2read[2].errors = BLESVR_ERR_CONNECTFAIL
  /\ vals2read[3].errors = 0 /\ vals2read[3].connects = 1
  /\ Len(Stored(measuredData)) = 3
  /\ \A j \in 1..3 : TagOf(Stored(measuredData)[j]) = vals2read[j].valueTag

(***************************************************************************)
(* The resolving system: an entry configured by name and one configured by *)
(* address; two devices advertise the name, one of them at the configured  *)
(* address, and a third advertises no name; a connect may fail.            *)
(***************************************************************************)
ResolveTable ==
  << Configured(<<11>>, 1, NameA), Configured(<<12>>, 2, AddrB) >>

ResolveEnv ==
  [maxCounter |-> MaxReadTicks - 1, connect |-> BOOLEAN, deliver |-> {TRUE},
   maxFails |-> 0, dead |-> {}, audit |-> FALSE, ttags |-> TimeTags, wifi |-> {TRUE}, values |-> {<<21>>},
   adv |-> {[name |-> NameA, addr |-> AddrA], [name |-> NameA, addr |-> AddrB],
            [name |-> <<>>, addr |-> AddrB]}]

ResolveInit == config = <<>> /\ Setup(ResolveTable, SprintfBuilds)

ResolveNext == Loop(ResolveEnv)

SpecResolve == ResolveInit /\ [][ResolveNext]_vars

\* C19: resolution is stable.  In every step of the loop (tick, read,
\* connect failure, advertisement, WiFi block, forwarding) an entry whose
\* deviceAddr is not empty keeps a deviceAddr that is not empty; the table
\* keeps its entries, and deviceAddr changes only when onResult runs.
C19_ResolutionStable ==
  [][/\ Len(vals2read') = Len(vals2read)
     /\ \A i \in 1..Len(vals2read) :
          /\ (vals2read[i].deviceAddr # <<>> => vals2read'[i].deviceAddr # <<>>)
          /\ (vals2read'[i].deviceAddr # vals2read[i].deviceAddr =>
                /\ pc = "scanning" /\ pc' = "scanning"
                /\ lastAdv'.seen /\ vals2read'[i].deviceAddr = lastAdv'.addr)
    ]_vars

\* C19 witness: an entry that a scan resolved, and whose connect then failed,
\* still has its address when the loop iteration after the read is over.
C19_Witness ==
  /\ pc = "tick" /\ nTicks = 1
  /\ \E i \in 1..Len(vals2read) :
       /\ HasBit(vals2read[i].errors, BLESVR_ERR_CONNECTFAIL)
       /\ vals2read[i].connects = 0
       /\ vals2read[i].deviceAddr = AddrB
       /\ vals2read[i].deviceId = NameA

(***************************************************************************)
(* The forwarding system: three entries read every minute, a sink that     *)
(* answers every record of one tag with a failure and every other record   *)
(* with 200, and a control loop that keeps iterating: the runtime calls     *)
(* loop() again each time it returns and every block of loop() returns, so *)
(* the position of the loop changes again and again.                       *)
(***************************************************************************)
MaxLiveTicks == 2

DeadTag == <<12>>
HealthyTags == {<<11>>, <<13>>}

LiveTable ==
  << Configured(<<11>>, 1, NameA), Configured(DeadTag, 1, NameA),
     Configured(<<13>>, 1, NameA) >>

LiveEnv ==
  [maxCounter |-> MaxLiveTicks - 1, connect |-> {TRUE}, deliver |-> {TRUE},
   maxFails |-> MaxFails, dead |-> {DeadTag}, audit |-> FALSE, ttags |-> TimeTags, wifi |-> {TRUE},
   values |-> {<<21>>}, adv |-> {[name |-> NameA, addr |-> AddrA]}]

LiveInit == config = <<>> /\ Setup(LiveTable, SprintfBuilds)

LiveNext == Loop(LiveEnv)

\* the places of loop() a step starts from
Places == {"tick", "read", "scan", "scanning", "wifi", "forward"}

\* the loop moves on: to another block, or to the next entry of the read loop
LoopIterates ==
  /\ pc' \in Places
  /\ idx' \in 1..(Len(vals2read) + 1)
  /\ (pc' # pc \/ idx' # idx)

SpecLive == LiveInit /\ [][LiveNext]_vars /\ WF_<<pc, idx>>(LoopIterates)

\* the queued records of a tag, in queue order
QueuedOf(tag) ==
  SelectSeq(Stored(measuredData),
            LAMBDA rec : Len(CommaLocs(rec, 1)) >= 2 /\ TagOf(rec) = tag)

\* C20: no head-of-line blocking.  While the records of tag 12 fail delivery
\* on every attempt, for ever, and the loop keeps iterating: whenever records
\* of another tag are queued, a later state has none of them queued; and a
\* record of such a tag leaves the queue only in a forward block that popped
\* it from the head and delivered it.  Every step other than a discovery
\* callback during the scan moves the position of the loop, so the loop that
\* keeps iterating is the loop whose position keeps moving.
C20_NoHeadOfLineBlocking ==
  /\ [][LoopIterates \/ (pc = "scanning" /\ pc' = "scanning")]_vars
  /\ \A tag \in HealthyTags :
       (Len(QueuedOf(tag)) > 0) ~> (Len(QueuedOf(tag)) = 0)
  /\ [][\A tag \in HealthyTags :
          Len(QueuedOf(tag))' < Len(QueuedOf(tag)) =>
            /\ pc = "forward" /\ pc' = "tick"
            /\ lastFwd'.tried /\ lastFwd'.ok
            /\ Len(QueuedOf(tag))' = Len(QueuedOf(tag)) - 1
            /\ TagOf(Head(Stored(measuredData))) = tag
            /\ Stored(measuredData)' = Tail(Stored(measuredData))]_vars

\* C20 witness: since the last read, the forwarder failed on a record of the
\* dead tag at the head, requeued it, and delivered the healthy record that
\* was behind it; the dead record has failed before and is still queued.
C20_Witness ==
  /\ pc = "tick"
  /\ Len(fwdLog) = 2
  /\ ~fwdLog[1].ok /\ TagOf(fwdLog[1].rec) = DeadTag
  /\ fwdLog[2].ok /\ TagOf(fwdLog[2].rec) \in HealthyTags
  /\ Len(fwdStart) >= 2
  /\ fwdStart[1] = fwdLog[1].rec /\ fwdStart[2] = fwdLog[2].rec
  /\ nFails >= 2
  /\ Len(QueuedOf(DeadTag)) > 0

(***************************************************************************)
(* The audited system: two entries read every minute, a sink that may      *)
(* refuse a delivery, and a count kept of every record the read loop       *)
(* queued and of every record the sink accepted.                           *)
(***************************************************************************)
MaxAuditTicks == 2

AuditTable ==
  << Configured(<<11>>, 1, NameA), Configured(<<12>>, 1, NameA) >>

AuditEnv ==
  [maxCounter |-> MaxAuditTicks - 1, connect |-> {TRUE}, deliver |-> BOOLEAN,
   maxFails |-> MaxFails, dead |-> {}, audit |-> TRUE, ttags |-> TimeTags, wifi |-> {TRUE},
   values |-> {<<21>>}, adv |-> {[name |-> NameA, addr |-> AddrA]}]

AuditInit == config = <<>> /\ Setup(AuditTable, SprintfBuilds)

AuditNext == Loop(AuditEnv)

SpecAudit == AuditInit /\ [][AuditNext]_vars

\* copies of the record rec the queue holds
CopiesQueued(rec) ==
  Cardinality({k \in 1..Len(Stored(measuredData)) : Stored(measuredData)[k] = rec})

\* delivery attempts made so far: those accepted and those refused
DeliveryAttempts == BagCardinality(audit.delivered) + nFails

\* C22: one attempt per iteration, delivered at most once.  The number of
\* delivery attempts changes only in the forward block that ends a loop
\* iteration, and then by one, whether or not the iteration ran the
\* one-minute tasks; and of every record, the copies delivered and the
\* copies still queued are together no more than the copies the read loop
\* queued, so no queued record is delivered twice and a delivered record is
\* no longer in the queue.
C22_DeliveredAtMostOnce ==
  /\ [][DeliveryAttempts' # DeliveryAttempts =>
          /\ pc = "forward" /\ pc' = "tick"
          /\ lastFwd'.tried
          /\ DeliveryAttempts' = DeliveryAttempts + 1]_vars
  /\ [](\A rec \in BagToSet(audit.queued) \cup BagToSet(audit.delivered) :
          CopiesIn(rec, audit.delivered) + CopiesQueued(rec)
            <= CopiesIn(rec, audit.queued))

\* C22 witness: the forward block of an iteration that ran the one-minute
\* tasks delivered the second copy of a record that was queued twice, after
\* a delivery had failed and been retried.
C22_Witness ==
  /\ pc = "tick" /\ ticked
  /\ lastFwd.tried /\ lastFwd.ok
  /\ nFails >= 1
  /\ \E rec \in BagToSet(audit.delivered) :
       /\ CopiesIn(rec, audit.delivered) = 2
       /\ CopiesIn(rec, audit.queued) = 2
       /\ CopiesQueued(rec) = 0

(***************************************************************************)
(* The discovery system: an entry configured by name and read every 30     *)
(* minutes, one configured by address and read every 60, followed past the *)
(* hourly rescan.  Two devices advertise the name, one of them at the      *)
(* configured address, and one advertises no name; onResult is called back *)
(* only while pBLEScan->start() occupies the loop.                         *)
(***************************************************************************)
MaxScanTicks == 61

DiscoveryTable ==
  << Configured(<<11>>, 30, NameA), Configured(<<12>>, 60, AddrB) >>

DiscoveryEnv ==
  [maxCounter |-> MaxScanTicks - 1, connect |-> BOOLEAN, deliver |-> {TRUE},
   maxFails |-> 0, dead |-> {}, audit |-> TRUE, ttags |-> TimeTags, wifi |-> {TRUE},
   values |-> {<<21>>},
   adv |-> {[name |-> NameA, addr |-> AddrA], [name |-> NameA, addr |-> AddrB],
            [name |-> <<>>, addr |-> AddrB]}]

DiscoveryInit == config = <<>> /\ Setup(DiscoveryTable, SprintfBuilds)

DiscoveryNext == Loop(DiscoveryEnv)

SpecDiscovery == DiscoveryInit /\ [][DiscoveryNext]_vars

\* the addresses the devices advertise
Advertised == {adv.addr : adv \in DiscoveryEnv.adv}

\* C21: the address of a connect attempt.  Whenever the read loop has called
\* readValue for an entry, the address the connect was given is not empty and
\* is, whole, the address of an advertisement that matched that entry, so it
\* is never made of bytes of two addresses; and the table is written by the
\* callback only while the loop is inside the scan.
C21_ConnectAddress ==
  /\ lastRead.called =>
       /\ lastRead.addr # <<>>
       /\ lastRead.addr \in Advertised
       /\ <<lastRead.i, lastRead.addr>> \in audit.matched
  /\ pc # "scanning" =>
       \A i \in 1..Len(vals2read) :
         vals2read[i].deviceAddr # <<>> =>
           <<i, vals2read[i].deviceAddr>> \in audit.matched

\* C21 witness: after the hourly rescan, a connect for the entry configured
\* by name used the address of the second device of that name, the first
\* device's address having been in the entry before.
C21_Witness ==
  /\ nScans = 2
  /\ lastRead.called /\ lastRead.i = 1
  /\ lastRead.addr = AddrB
  /\ <<1, AddrA>> \in audit.matched
  /\ vals2read[1].connects >= 1
  /\ HasBit(vals2read[1].errors, BLESVR_ERR_CONNECTFAIL)

(***************************************************************************)
(* The system at the sketch's own sizes: buf and buf1 of 384 bytes, a      *)
(* queue of 4096 bytes, readValue called with maxlen 256, a time tag of 19 *)
(* characters, and one entry read every minute whose characteristic gives  *)
(* a short value or one of 255 bytes.                                      *)
(***************************************************************************)
MaxSizeTicks == 2

\* QUEUESIZE
QUEUESIZE == 4096

\* rtc.getTime("%Y/%m/%d,%H:%M:%S"): 2026/11/03,20:52:54
Stamp == <<50, 48, 50, 54, 47, 49, 49, 47, 48, 51, 44,
           50, 48, 58, 53, 50, 58, 53, 52>>

\* a value tag of 44 characters
LongTag == [i \in 1..44 |-> 84]

\* a characteristic value of maxlen - 1 bytes
LongValue == [i \in 1..(ReadBufLen - 1) |-> 86]

SizeTable == << Configured(LongTag, 1, NameA) >>

SizeEnv ==
  [maxCounter |-> MaxSizeTicks - 1, connect |-> BOOLEAN, deliver |-> {TRUE},
   maxFails |-> 0, dead |-> {}, audit |-> FALSE, ttags |-> {Stamp}, wifi |-> {TRUE},
   values |-> {<<21>>, LongValue}, adv |-> {[name |-> NameA, addr |-> AddrA]}]

SizeInit == config = <<>> /\ SetupSized(SizeTable, SprintfBuilds, QUEUESIZE)

SizeNext == Loop(SizeEnv)

SpecSize == SizeInit /\ [][SizeNext]_vars

\* C23: buffer sizing.  Every record the read loop pushed is shorter than
\* buf1 (384 bytes with the terminator), and every pop of the forward block
\* returned the one complete record that was at the head of the queue.
C23_RecordsFitBuf1_AsStated ==
  /\ (lastRead.called /\ lastRead.sts = 1 => Len(lastRead.rec) + 1 <= Buf1Size)
  /\ \A k \in 1..Len(fwdLog) : k <= Len(fwdStart) /\ fwdLog[k].rec = fwdStart[k]

\* C23, what the code does: a value of 255 bytes is copied into buf without
\* a terminator, the string sprintf formats runs on into what the record
\* before left in buf, and after two such reads the record pushed is longer
\* than buf1: the forward block pops its first 383 bytes as one message and
\* the rest of it as the next.
C23_Fragment ==
  /\ Len(fwdStart) = 1
  /\ Len(fwdStart[1]) + 1 > Buf1Size
  /\ Len(fwdLog) = 2
  /\ Len(fwdLog[1].rec) = Buf1Size - 1
  /\ fwdLog[1].rec \o fwdLog[2].rec = fwdStart[1]

====
